---- MODULE Spec2Model ----
(***************************************************************************)
(* Model of PleiadesParser.py: the mapping of one raw Pleiades JSON record *)
(* (graph_dict) to a PleiadesObject or a Pleiad, the helper containers,    *)
(* and the two corpus loops get_pleiades_objects / get_pleiads.            *)
(*                                                                         *)
(* Python values are encoded as follows.                                   *)
(*   - a JSON string is a TLA+ string; None is the string None; a key that *)
(*     is not in its dict has the value Absent (subscripting it raises     *)
(*     KeyError);                                                          *)
(*   - a JSON number is [tag |-> "num", n |-> i];                          *)
(*   - a JSON list is [tag |-> "list", items |-> <<...>>];                 *)
(*   - a JSON dict is a record with tag "dict" and one field per key;      *)
(*   - tag "None" is null, tag "absent" is a key that is not in the dict.  *)
(* A call yields [exc |-> e, val |-> v]: exc = NoExc and the value, or the *)
(* name of the exception that left the call.                               *)
(* An attribute of an object is <<>> when it was never assigned and <<v>>  *)
(* when it was assigned v.                                                 *)
(***************************************************************************)
EXTENDS Integers, Sequences, FiniteSets, TLC

\* arg is the argument as it was passed; heap is that same object as the caller
\* finds it now, after the statements run so far
VARIABLES pc, fn, arg, heap, row, pleiads, ret

vars == <<pc, fn, arg, heap, row, pleiads, ret>>

-----------------------------------------------------------------------------
(* Bounds of the model *)

MaxLen == 3        \* longest list handed directly to a container
MaxAtt == 2        \* longest attestation list inside a raw record
MaxConn == 2       \* longest connections list inside a raw record
MaxNames == 2      \* longest names list inside a raw record
MaxBbox == 4       \* longest bbox list inside a raw record
MaxRecords == 2    \* longest corpus

-----------------------------------------------------------------------------
(* Python values *)

Absent == "<absent>"
None == "<None>"

NoExc == ""
KeyError == "KeyError"
IndexError == "IndexError"
TypeError == "TypeError"
NameError == "NameError"

Ok(v) == [exc |-> NoExc, val |-> v]
Raise(e) == [exc |-> e, val |-> <<>>]

JList(items) == [tag |-> "list", items |-> items]
NoneList == [tag |-> "None", items |-> <<>>]
AbsentList == [tag |-> "absent", items |-> <<>>]

Num(i) == [tag |-> "num", n |-> i]
NoneNum == [tag |-> "None", n |-> 0]
AbsentNum == [tag |-> "absent", n |-> 0]

\* bool(v) of a string or None
Truthy(v) == v \notin {None, ""}
\* bool(v) of a number or None
TruthyNum(v) == v.tag = "num" /\ v.n # 0
\* bool(v) of a list or None
TruthyList(v) == v.tag = "list" /\ v.items # <<>>

EmptyDict == [k \in {} |-> ""]
\* d[k] = v
Put(d, k, v) == [x \in (DOMAIN d) \cup {k} |-> IF x = k THEN v ELSE d[x]]

RECURSIVE SeqsUpTo(_, _)
SeqsUpTo(S, n) ==
    IF n = 0 THEN {<<>>}
    ELSE LET shorter == SeqsUpTo(S, n - 1)
         IN shorter \cup {Append(s, x) : s \in {t \in shorter : Len(t) = n - 1}, x \in S}

-----------------------------------------------------------------------------
(* class BboxContainer *)

\* BboxContainer with latitude and longitude exchanged
BboxContainerSwapped(coordinates) ==
    IF Len(coordinates) < 4 THEN Raise(IndexError)
    ELSE Ok([min_longitude |-> coordinates[2],
             min_latitude |-> coordinates[1],
             max_longitude |-> coordinates[4],
             max_latitude |-> coordinates[3]])

BboxContainer(coordinates) ==
    IF Len(coordinates) < 4 THEN Raise(IndexError)
    ELSE Ok([min_longitude |-> coordinates[1],
             min_latitude |-> coordinates[2],
             max_longitude |-> coordinates[3],
             max_latitude |-> coordinates[4]])

(* class GeometryContainer *)

GeometryContainer(geometry_dict) ==
    IF geometry_dict.type = Absent \/ geometry_dict.coordinates.tag = "absent"
    THEN Raise(KeyError)
    ELSE Ok([geom_type |-> geometry_dict.type,
             coordinates |-> geometry_dict.coordinates])

(* class PropertiesContainer *)

PropertiesContainer(properties_dict) ==
    IF \E k \in {"snippet", "link", "description", "location_precision", "title"} :
           properties_dict[k] = Absent
    THEN Raise(KeyError)
    ELSE Ok([snippet |-> properties_dict.snippet,
             link |-> properties_dict.link,
             description |-> properties_dict.description,
             location_precision |-> properties_dict.location_precision,
             title |-> properties_dict.title])

(* class AttestationsContainer *)

\* AttestationsStore keeping the first confidence of a time period
AttestationsStoreFirst(attestations, attestations_dict) ==
    IF attestations_dict.timePeriod \in DOMAIN attestations THEN attestations
    ELSE Put(attestations, attestations_dict.timePeriod, attestations_dict.confidence)

\* one pass of the loop body: self.attestations[d['timePeriod']] = d['confidence']
AttestationsStore(attestations, attestations_dict) ==
    Put(attestations, attestations_dict.timePeriod, attestations_dict.confidence)

RECURSIVE AttestationsLoop(_, _, _)
AttestationsLoop(items, i, attestations) ==
    IF i > Len(items) THEN Ok([attestations |-> attestations])
    ELSE IF items[i].tag # "dict" THEN Raise(TypeError)
    ELSE IF items[i].confidence = Absent \/ items[i].timePeriod = Absent
         THEN Raise(KeyError)
    ELSE AttestationsLoop(items, i + 1, AttestationsStore(attestations, items[i]))

AttestationsContainer(attestations_list) ==
    IF attestations_list.tag # "list" THEN Raise(TypeError)
    ELSE AttestationsLoop(attestations_list.items, 1, EmptyDict)

(* class Name *)

NameKeysBefore == <<"nameType", "transcriptionAccuracy", "associationCertainty", "romanized">>
NameKeysAfter == <<"id", "transcriptionCompleteness", "language", "description", "uri", "attested">>

\* Name reading every field with attributes.get(key): a missing field is None
Defaulted(v) == IF v = Absent THEN None ELSE v
NameDefaulted(attributes) ==
    IF attributes.tag # "dict" THEN Raise(TypeError)
    ELSE LET att == AttestationsContainer(
                        IF attributes.attestations.tag = "absent" THEN JList(<<>>)
                        ELSE attributes.attestations) IN
         IF att.exc # NoExc THEN Raise(att.exc)
         ELSE Ok([name_type |-> Defaulted(attributes.nameType),
                  transcription_accuracy |-> Defaulted(attributes.transcriptionAccuracy),
                  association_certainty |-> Defaulted(attributes.associationCertainty),
                  romanized_name |-> Defaulted(attributes.romanized),
                  attestations |-> att.val,
                  name_id |-> Defaulted(attributes.id),
                  transcription_completeness |-> Defaulted(attributes.transcriptionCompleteness),
                  language |-> Defaulted(attributes.language),
                  description |-> Defaulted(attributes.description),
                  name_uri |-> Defaulted(attributes.uri),
                  name_attested |-> Defaulted(attributes.attested)])

Name(attributes) ==
    IF attributes.tag # "dict" THEN Raise(TypeError)
    ELSE IF \E i \in 1..Len(NameKeysBefore) : attributes[NameKeysBefore[i]] = Absent
         THEN Raise(KeyError)
    ELSE IF attributes.attestations.tag = "absent" THEN Raise(KeyError)
    ELSE LET att == AttestationsContainer(attributes.attestations) IN
         IF att.exc # NoExc THEN Raise(att.exc)
         ELSE IF \E i \in 1..Len(NameKeysAfter) : attributes[NameKeysAfter[i]] = Absent
              THEN Raise(KeyError)
         ELSE Ok([name_type |-> attributes.nameType,
                  transcription_accuracy |-> attributes.transcriptionAccuracy,
                  association_certainty |-> attributes.associationCertainty,
                  romanized_name |-> attributes.romanized,
                  attestations |-> att.val,
                  name_id |-> attributes.id,
                  transcription_completeness |-> attributes.transcriptionCompleteness,
                  language |-> attributes.language,
                  description |-> attributes.description,
                  name_uri |-> attributes.uri,
                  name_attested |-> attributes.attested])

(* class NamesContainer *)

RECURSIVE NamesLoop(_, _, _)
NamesLoop(items, i, names) ==
    IF i > Len(items) THEN Ok([names |-> names])
    ELSE LET n == Name(items[i]) IN
         IF n.exc # NoExc THEN Raise(n.exc)
         ELSE NamesLoop(items, i + 1, Append(names, n.val))

NamesContainer(names_list) ==
    IF names_list.tag # "list" THEN Raise(TypeError)
    ELSE NamesLoop(names_list.items, 1, <<>>)

-----------------------------------------------------------------------------
(* Attribute assignment and the guarded reads of the two record classes *)

\* self.attr = v
SetAttr(self, attr, v) == [self EXCEPT ![attr] = <<v>>]

\* bool(d) of a dict: it is a dict and holds some key.  strKeys are its keys
\* with string values (Absent when not in the dict), tagKeys its keys with
\* tagged values (tag "absent" when not in the dict)
TruthyDict(d, strKeys, tagKeys) ==
    /\ d.tag = "dict"
    /\ \/ \E k \in strKeys : d[k] # Absent
       \/ \E k \in tagKeys : d[k].tag # "absent"

FeatureStrKeys == {"type", "id"}
FeatureTagKeys == {"geometry", "properties"}
LocationStrKeys ==
    {"associationCertainty", "associationCertaintyURI", "id", "title",
     "archaeologicalRemains", "details", "description", "uri", "at_type"}
LocationTagKeys ==
    {"attestations", "featureTypeURI", "featureType", "start", "end", "accuracy_value",
     "locationType"}
ConnectionStrKeys == {"id", "connectionType"}
NameStrKeys ==
    {NameKeysBefore[i] : i \in 1..Len(NameKeysBefore)}
    \cup {NameKeysAfter[i] : i \in 1..Len(NameKeysAfter)}
NameTagKeys == {"attestations"}
GeometryStrKeys == {"type"}
GeometryTagKeys == {"coordinates"}
PropertiesStrKeys == {"snippet", "link", "description", "location_precision", "title"}

\* the test `d[k] and d[k][0]` on a list of dicts: "raise", "true" or "false"
TestDictList(l, strKeys, tagKeys) ==
    IF l.tag = "absent" THEN "raise"
    ELSE IF TruthyList(l) /\ TruthyDict(l.items[1], strKeys, tagKeys) THEN "true"
    ELSE "false"

\* if d[k]: self.attr = d[k]            (d[k] a string)
CopyStr(c, attr, v) ==
    IF c.exc # NoExc THEN c
    ELSE IF v = Absent THEN Raise(KeyError)
    ELSE IF Truthy(v) THEN Ok(SetAttr(c.val, attr, v)) ELSE c

\* if d[k]: self.attr = d[k]            (d[k] a number)
CopyNum(c, attr, v) ==
    IF c.exc # NoExc THEN c
    ELSE IF v.tag = "absent" THEN Raise(KeyError)
    ELSE IF TruthyNum(v) THEN Ok(SetAttr(c.val, attr, v.n)) ELSE c

\* if d[k] and d[k][0]: self.attr = d[k][0]      (d[k] a list of strings)
CopyFirst(c, attr, l) ==
    IF c.exc # NoExc THEN c
    ELSE IF l.tag = "absent" THEN Raise(KeyError)
    ELSE IF TruthyList(l) /\ Truthy(l.items[1])
         THEN Ok(SetAttr(c.val, attr, l.items[1])) ELSE c

\* if d[k] and d[k][0]: self.attr = []; for x in d[k]: self.attr.append(x)
CopyList(c, attr, l) ==
    IF c.exc # NoExc THEN c
    ELSE IF l.tag = "absent" THEN Raise(KeyError)
    ELSE IF TruthyList(l) /\ Truthy(l.items[1])
         THEN Ok(SetAttr(c.val, attr, l.items)) ELSE c

\* if graph_dict['bbox'] and graph_dict['bbox'][0]: self.bbox = BboxContainer(graph_dict['bbox'])
CopyBbox(c, l) ==
    IF c.exc # NoExc THEN c
    ELSE IF l.tag = "absent" THEN Raise(KeyError)
    ELSE IF TruthyList(l) /\ l.items[1] # 0
         THEN LET b == BboxContainer(l.items) IN
              IF b.exc # NoExc THEN Raise(b.exc) ELSE Ok(SetAttr(c.val, "bbox", b.val))
         ELSE c

\* if graph_dict['reprPoint'] and graph_dict['reprPoint'][0]: self.repr_point = graph_dict['reprPoint']
CopyReprPoint(c, l) ==
    IF c.exc # NoExc THEN c
    ELSE IF l.tag = "absent" THEN Raise(KeyError)
    ELSE IF TruthyList(l) /\ l.items[1] # 0
         THEN Ok(SetAttr(c.val, "repr_point", l.items)) ELSE c

\* if d['geometry']: self.attr = GeometryContainer(d['geometry'])
CopyGeometry(c, attr, g) ==
    IF c.exc # NoExc THEN c
    ELSE IF g.tag = "absent" THEN Raise(KeyError)
    ELSE IF TruthyDict(g, GeometryStrKeys, GeometryTagKeys)
         THEN LET r == GeometryContainer(g) IN
              IF r.exc # NoExc THEN Raise(r.exc) ELSE Ok(SetAttr(c.val, attr, r.val))
         ELSE c

\* if d['properties']: self.features_properties = PropertiesContainer(d['properties'])
CopyProperties(c, p) ==
    IF c.exc # NoExc THEN c
    ELSE IF p.tag = "absent" THEN Raise(KeyError)
    ELSE IF TruthyDict(p, PropertiesStrKeys, {})
         THEN LET r == PropertiesContainer(p) IN
              IF r.exc # NoExc THEN Raise(r.exc)
              ELSE Ok(SetAttr(c.val, "features_properties", r.val))
         ELSE c

\* the connections block of both classes: self.connections = {} and then, per
\* item, connections[item['id']] = item['connectionType'].  The right-hand side
\* is evaluated first; the target names `connections`, which is bound neither
\* in __init__ nor at module level, so the statement raises NameError.
ConnectionsStore(self, item) ==
    IF item.tag # "dict" THEN Raise(TypeError)
    ELSE IF item.connectionType = Absent THEN Raise(KeyError)
    ELSE Raise(NameError)

RECURSIVE ConnectionsLoop(_, _, _)
ConnectionsLoop(items, i, self) ==
    IF i > Len(items) THEN Ok(self)
    ELSE LET r == ConnectionsStore(self, items[i]) IN
         IF r.exc # NoExc THEN r ELSE ConnectionsLoop(items, i + 1, r.val)

Connections(c, l) ==
    IF c.exc # NoExc THEN c
    ELSE IF TestDictList(l, ConnectionStrKeys, {}) = "raise" THEN Raise(KeyError)
    ELSE IF TestDictList(l, ConnectionStrKeys, {}) = "true"
         THEN ConnectionsLoop(l.items, 1, SetAttr(c.val, "connections", EmptyDict))
         ELSE c

\* if graph_dict['names'] and graph_dict['names'][0]: self.names = NamesContainer(graph_dict['names'])
Names(c, l) ==
    IF c.exc # NoExc THEN c
    ELSE IF TestDictList(l, NameStrKeys, NameTagKeys) = "raise" THEN Raise(KeyError)
    ELSE IF TestDictList(l, NameStrKeys, NameTagKeys) = "true"
         THEN LET r == NamesContainer(l) IN
              IF r.exc # NoExc THEN Raise(r.exc) ELSE Ok(SetAttr(c.val, "names", r.val))
         ELSE c

-----------------------------------------------------------------------------
(* class PleiadesObject *)

\* the object before __init__ has assigned anything but the four tables
NewPleiadesObject ==
    [time_periods |-> EmptyDict, confidence_metrics |-> EmptyDict,
     association_certainties |-> EmptyDict, location_types |-> EmptyDict,
     features_geometry |-> <<>>, features_type |-> <<>>, features_id |-> <<>>,
     features_properties |-> <<>>,
     locations_associationCertainty |-> <<>>, locations_attestations |-> <<>>,
     locations_id |-> <<>>, locations_featureTypeURI |-> <<>>,
     locations_start |-> <<>>, locations_end |-> <<>>, locations_title |-> <<>>,
     locations_archaeologicalRemains |-> <<>>, locations_details |-> <<>>,
     locations_accuracy_value |-> <<>>, locations_featureType |-> <<>>,
     locations_description |-> <<>>, locations_locationType |-> <<>>,
     locations_uri |-> <<>>, locations_type |-> <<>>,
     connections |-> <<>>, names |-> <<>>, id |-> <<>>, subjects |-> <<>>,
     title |-> <<>>, provenance |-> <<>>, details |-> <<>>, type |-> <<>>,
     uri |-> <<>>, description |-> <<>>, place_types |-> <<>>, bbox |-> <<>>,
     repr_point |-> <<>>]

\* AddFirst without the membership test: a later URI replaces the earlier one
AddOverwrite(table, label, label_uri) == Put(table, label, label_uri)

\* the four add_* methods: the entry is stored only when the label is not a key yet
AddFirst(table, label, label_uri) ==
    IF label \in DOMAIN table THEN table ELSE Put(table, label, label_uri)

add_time_period(self, time_period, time_period_uri) ==
    [self EXCEPT !.time_periods = AddFirst(@, time_period, time_period_uri)]

add_confidence_metric(self, confidence_metric, confidence_metric_uri) ==
    [self EXCEPT !.confidence_metrics = AddFirst(@, confidence_metric, confidence_metric_uri)]

add_association_certainty(self, certainty, certainty_uri) ==
    [self EXCEPT !.association_certainties = AddFirst(@, certainty, certainty_uri)]

add_location_type(self, location_type, location_type_uri) ==
    [self EXCEPT !.location_types = AddFirst(@, location_type, location_type_uri)]

\* the features block
FullFeatures(c, features) ==
    IF c.exc # NoExc THEN c
    ELSE IF TestDictList(features, FeatureStrKeys, FeatureTagKeys) = "raise" THEN Raise(KeyError)
    ELSE IF TestDictList(features, FeatureStrKeys, FeatureTagKeys) = "false" THEN c
    ELSE LET f == features.items[1]
             c1 == CopyGeometry(c, "features_geometry", f.geometry)
             c2 == CopyStr(c1, "features_type", f.type)
             c3 == CopyStr(c2, "features_id", f.id)
         IN CopyProperties(c3, f.properties)

\* if loc['associationCertainty']: ...; self.add_association_certainty(..., loc['associationCertaintyURI'])
FullAssociationCertainty(c, loc) ==
    IF c.exc # NoExc THEN c
    ELSE IF loc.associationCertainty = Absent THEN Raise(KeyError)
    ELSE IF ~Truthy(loc.associationCertainty) THEN c
    ELSE IF loc.associationCertaintyURI = Absent THEN Raise(KeyError)
    ELSE Ok(add_association_certainty(
                SetAttr(c.val, "locations_associationCertainty", loc.associationCertainty),
                loc.associationCertainty, loc.associationCertaintyURI))

\* the loop over the attestations that fills time_periods and confidence_metrics
RECURSIVE FullAttestationsLoop(_, _, _)
FullAttestationsLoop(items, i, self) ==
    IF i > Len(items) THEN Ok(self)
    ELSE IF items[i].timePeriod = Absent \/ items[i].timePeriodURI = Absent
         THEN Raise(KeyError)
    ELSE IF items[i].confidence = Absent \/ items[i].confidenceURI = Absent
         THEN Raise(KeyError)
    ELSE FullAttestationsLoop(items, i + 1,
             add_confidence_metric(
                 add_time_period(self, items[i].timePeriod, items[i].timePeriodURI),
                 items[i].confidence, items[i].confidenceURI))

\* if loc['attestations']: self.locations_attestations = AttestationsContainer(...); for ...
FullAttestations(c, loc) ==
    IF c.exc # NoExc THEN c
    ELSE IF loc.attestations.tag = "absent" THEN Raise(KeyError)
    ELSE IF ~TruthyList(loc.attestations) THEN c
    ELSE LET a == AttestationsContainer(loc.attestations) IN
         IF a.exc # NoExc THEN Raise(a.exc)
         ELSE FullAttestationsLoop(loc.attestations.items, 1,
                                   SetAttr(c.val, "locations_attestations", a.val))

\* if loc['featureTypeURI'] and loc['featureTypeURI'][0]: ...
\*     self.add_location_type(loc['featureType'][0], self.locations_featureTypeURI)
FullFeatureTypeURI(c, loc) ==
    IF c.exc # NoExc THEN c
    ELSE IF loc.featureTypeURI.tag = "absent" THEN Raise(KeyError)
    ELSE IF ~(TruthyList(loc.featureTypeURI) /\ Truthy(loc.featureTypeURI.items[1])) THEN c
    ELSE IF loc.featureType.tag = "absent" THEN Raise(KeyError)
    ELSE IF loc.featureType.tag = "None" THEN Raise(TypeError)
    ELSE IF loc.featureType.items = <<>> THEN Raise(IndexError)
    ELSE Ok(add_location_type(
                SetAttr(c.val, "locations_featureTypeURI", loc.featureTypeURI.items[1]),
                loc.featureType.items[1], loc.featureTypeURI.items[1]))

\* the statements under `if graph_dict['locations'] and graph_dict['locations'][0]:`.
\* They run in source order, which is bottom-up here: c0 is the construction
\* state before the block and c<i> the state after its i-th statement.
FullLocationsBody(c, locations) ==
    CHOOSE c15 \in
      {CopyStr(c14, "locations_type", locations.items[1].at_type) : c14 \in
      {CopyStr(c13, "locations_uri", locations.items[1].uri) : c13 \in
      {CopyFirst(c12, "locations_locationType", locations.items[1].locationType) : c12 \in
      {CopyStr(c11, "locations_description", locations.items[1].description) : c11 \in
      {CopyFirst(c10, "locations_featureType", locations.items[1].featureType) : c10 \in
      {CopyNum(c9, "locations_accuracy_value", locations.items[1].accuracy_value) : c9 \in
      {CopyStr(c8, "locations_details", locations.items[1].details) : c8 \in
      {CopyStr(c7, "locations_archaeologicalRemains", locations.items[1].archaeologicalRemains) : c7 \in
      {CopyStr(c6, "locations_title", locations.items[1].title) : c6 \in
      {CopyNum(c5, "locations_end", locations.items[1].end) : c5 \in
      {CopyNum(c4, "locations_start", locations.items[1].start) : c4 \in
      {FullFeatureTypeURI(c3, locations.items[1]) : c3 \in
      {CopyStr(c2, "locations_id", locations.items[1].id) : c2 \in
      {FullAttestations(c1, locations.items[1]) : c1 \in
      {FullAssociationCertainty(c0, locations.items[1]) : c0 \in
      {c}}}}}}}}}}}}}}}} : TRUE

\* the locations block
FullLocations(c, locations) ==
    IF c.exc # NoExc THEN c
    ELSE IF TestDictList(locations, LocationStrKeys, LocationTagKeys) = "raise" THEN Raise(KeyError)
    ELSE IF TestDictList(locations, LocationStrKeys, LocationTagKeys) = "false" THEN c
    ELSE FullLocationsBody(c, locations)

\* if graph_dict['id']: self.id = graph_dict['id']
FullId(c, graph_dict) == CopyStr(c, "id", graph_dict.id)

\* PleiadesObject(graph_dict): the blocks and statements of __init__ in source
\* order, bottom-up here: c0 is the new object with its four empty tables and
\* c<i> the construction state after the i-th statement.
PleiadesObject(graph_dict) ==
    CHOOSE c15 \in
      {CopyReprPoint(c14, graph_dict.reprPoint) : c14 \in
      {CopyBbox(c13, graph_dict.bbox) : c13 \in
      {CopyList(c12, "place_types", graph_dict.placeTypes) : c12 \in
      {CopyStr(c11, "description", graph_dict.description) : c11 \in
      {CopyStr(c10, "uri", graph_dict.uri) : c10 \in
      {CopyStr(c9, "type", graph_dict.type) : c9 \in
      {CopyStr(c8, "details", graph_dict.details) : c8 \in
      {CopyStr(c7, "provenance", graph_dict.provenance) : c7 \in
      {CopyStr(c6, "title", graph_dict.title) : c6 \in
      {CopyList(c5, "subjects", graph_dict.subject) : c5 \in
      {FullId(c4, graph_dict) : c4 \in
      {Names(c3, graph_dict.names) : c3 \in
      {Connections(c2, graph_dict.connections) : c2 \in
      {FullLocations(c1, graph_dict.locations) : c1 \in
      {FullFeatures(c0, graph_dict.features) : c0 \in
      {Ok(NewPleiadesObject)}}}}}}}}}}}}}}}} : TRUE

-----------------------------------------------------------------------------
(* class Pleiad *)

NewPleiad ==
    [geometry |-> <<>>, text_id |-> <<>>, attestations |-> <<>>,
     start_date |-> <<>>, end_date |-> <<>>, archaeological_remains |-> <<>>,
     connections |-> <<>>, names |-> <<>>, id |-> <<>>, subjects |-> <<>>,
     title |-> <<>>, details |-> <<>>, uri |-> <<>>, description |-> <<>>,
     place_types |-> <<>>, bbox |-> <<>>, repr_point |-> <<>>]

CuratedFeatures(c, features) ==
    IF c.exc # NoExc THEN c
    ELSE IF TestDictList(features, FeatureStrKeys, FeatureTagKeys) = "raise" THEN Raise(KeyError)
    ELSE IF TestDictList(features, FeatureStrKeys, FeatureTagKeys) = "false" THEN c
    ELSE LET f == features.items[1]
             c1 == CopyGeometry(c, "geometry", f.geometry)
         IN CopyStr(c1, "text_id", f.id)

\* if loc['attestations']: self.attestations = AttestationsContainer(loc['attestations'])
CuratedAttestations(c, loc) ==
    IF c.exc # NoExc THEN c
    ELSE IF loc.attestations.tag = "absent" THEN Raise(KeyError)
    ELSE IF ~TruthyList(loc.attestations) THEN c
    ELSE LET a == AttestationsContainer(loc.attestations) IN
         IF a.exc # NoExc THEN Raise(a.exc)
         ELSE Ok(SetAttr(c.val, "attestations", a.val))

CuratedLocations(c, locations) ==
    IF c.exc # NoExc THEN c
    ELSE IF TestDictList(locations, LocationStrKeys, LocationTagKeys) = "raise" THEN Raise(KeyError)
    ELSE IF TestDictList(locations, LocationStrKeys, LocationTagKeys) = "false" THEN c
    ELSE LET loc == locations.items[1]
             c1 == CuratedAttestations(c, loc)
             c2 == CopyNum(c1, "start_date", loc.start)
             c3 == CopyNum(c2, "end_date", loc.end)
         IN CopyStr(c3, "archaeological_remains", loc.archaeologicalRemains)

\* CuratedId with the test `is not None` in place of the truth test
CuratedIdNotNone(c, graph_dict) ==
    IF c.exc # NoExc THEN c
    ELSE IF graph_dict.id = Absent THEN Raise(KeyError)
    ELSE IF graph_dict.id # None THEN Ok(SetAttr(c.val, "id", graph_dict.id)) ELSE c

\* if graph_dict['id']: self.id = graph_dict['id']
CuratedId(c, graph_dict) == CopyStr(c, "id", graph_dict.id)

\* Pleiad(graph_dict): the statements of __init__ in source order, bottom-up here
Pleiad(graph_dict) ==
    CHOOSE c13 \in
      {CopyReprPoint(c12, graph_dict.reprPoint) : c12 \in
      {CopyBbox(c11, graph_dict.bbox) : c11 \in
      {CopyList(c10, "place_types", graph_dict.placeTypes) : c10 \in
      {CopyStr(c9, "description", graph_dict.description) : c9 \in
      {CopyStr(c8, "uri", graph_dict.uri) : c8 \in
      {CopyStr(c7, "details", graph_dict.details) : c7 \in
      {CopyStr(c6, "title", graph_dict.title) : c6 \in
      {CopyList(c5, "subjects", graph_dict.subject) : c5 \in
      {CuratedId(c4, graph_dict) : c4 \in
      {Names(c3, graph_dict.names) : c3 \in
      {Connections(c2, graph_dict.connections) : c2 \in
      {CuratedLocations(c1, graph_dict.locations) : c1 \in
      {CuratedFeatures(c0, graph_dict.features) : c0 \in
      {Ok(NewPleiad)}}}}}}}}}}}}}} : TRUE

-----------------------------------------------------------------------------
(* The raw records the model maps: one base record with every field present *)
(* and non-empty (and no connections), varied one block at a time.          *)

Attestation(tp, tpu, cf, cfu) ==
    [tag |-> "dict", timePeriod |-> tp, timePeriodURI |-> tpu,
     confidence |-> cf, confidenceURI |-> cfu]

\* attestations of a location: two time periods and two confidences, each label
\* with two possible URIs
RecordAttestations ==
    {Attestation(tp, u[1], cf, u[2]) : tp \in {"Classical", "Roman"}, cf \in {"low", "high"},
                                       u \in {<<"U1", "V1">>, <<"U2", "V2">>}}

\* attestations handed directly to AttestationsContainer; one lacks its confidence
DirectAttestations ==
    {Attestation(tp, "U1", cf, "V1") : tp \in {"Classical", "Roman"}, cf \in {"low", "high"}}
    \cup {Attestation("Classical", "U1", Absent, "V1")}

Geometry(t, coords) == [tag |-> "dict", type |-> t, coordinates |-> coords]
AbsentGeometry == [tag |-> "absent", type |-> Absent, coordinates |-> AbsentList]
BaseGeometry == Geometry("Point", JList(<<12, 41>>))
GeometryValues ==
    {AbsentGeometry, [AbsentGeometry EXCEPT !.tag = "None"],
     [AbsentGeometry EXCEPT !.tag = "dict"], BaseGeometry, Geometry("Point", AbsentList)}

BaseProperties ==
    [tag |-> "dict", snippet |-> "Settlement", link |-> "https://pleiades.stoa.org/places/123",
     description |-> "An ancient place", location_precision |-> "precise", title |-> "Rome"]
AbsentProperties ==
    [tag |-> "absent", snippet |-> Absent, link |-> Absent, description |-> Absent,
     location_precision |-> Absent, title |-> Absent]
PropertiesValues ==
    {AbsentProperties, [AbsentProperties EXCEPT !.tag = "None"], BaseProperties,
     [BaseProperties EXCEPT !.title = Absent]}

BaseFeature ==
    [tag |-> "dict", geometry |-> BaseGeometry, type |-> "Feature", id |-> "rome-text-id",
     properties |-> BaseProperties]
EmptyFeature ==
    [tag |-> "dict", geometry |-> AbsentGeometry, type |-> Absent, id |-> Absent,
     properties |-> AbsentProperties]
FeaturesValues ==
    {AbsentList, NoneList, JList(<<>>), JList(<<EmptyFeature>>),
     JList(<<[EmptyFeature EXCEPT !.tag = "None"]>>)}
    \cup {JList(<<[tag |-> "dict", geometry |-> g, type |-> t, id |-> i, properties |-> p]>>) :
            g \in GeometryValues, t \in {Absent, None, "Feature"},
            i \in {Absent, "", "rome-text-id"}, p \in PropertiesValues}

BaseLocation ==
    [tag |-> "dict", associationCertainty |-> "certain", associationCertaintyURI |-> "AC1",
     attestations |-> JList(<<Attestation("Classical", "U1", "low", "V1")>>),
     id |-> "loc-1", featureTypeURI |-> JList(<<"FT1">>), featureType |-> JList(<<"settlement">>),
     start |-> Num(-753), end |-> Num(1453), title |-> "Rome location",
     archaeologicalRemains |-> "substantive", details |-> "location details",
     accuracy_value |-> Num(20), description |-> "location description",
     locationType |-> JList(<<"representative">>), uri |-> "loc-uri", at_type |-> "Location"]
EmptyLocation ==
    [tag |-> "dict", associationCertainty |-> Absent, associationCertaintyURI |-> Absent,
     attestations |-> AbsentList, id |-> Absent, featureTypeURI |-> AbsentList,
     featureType |-> AbsentList, start |-> AbsentNum, end |-> AbsentNum, title |-> Absent,
     archaeologicalRemains |-> Absent, details |-> Absent, accuracy_value |-> AbsentNum,
     description |-> Absent, locationType |-> AbsentList, uri |-> Absent, at_type |-> Absent]

StrListValues == {AbsentList, NoneList, JList(<<>>), JList(<<"">>), JList(<<"settlement">>)}
LocationCopiedKeys ==
    {"id", "title", "archaeologicalRemains", "details", "description", "uri", "at_type"}
LocationNumKeys == {"start", "end", "accuracy_value"}

\* the values of locations[0]
LocationValues ==
    {[BaseLocation EXCEPT !.attestations = JList(a)] :
        a \in SeqsUpTo(RecordAttestations, MaxAtt)}
    \cup {[BaseLocation EXCEPT !.attestations = a] : a \in {AbsentList, NoneList}}
    \cup {[BaseLocation EXCEPT !.attestations =
              JList(<<Attestation("Classical", u, cf, v)>>)] :
            u \in {Absent, "U1"}, cf \in {Absent, "low"}, v \in {Absent, "V1"}}
    \cup {[BaseLocation EXCEPT !.featureType = ft, !.featureTypeURI = ftu] :
            ft \in StrListValues, ftu \in StrListValues}
    \cup {[BaseLocation EXCEPT !.associationCertainty = ac, !.associationCertaintyURI = acu] :
            ac \in {Absent, None, "", "certain"}, acu \in {Absent, None, "AC1"}}
    \cup {[BaseLocation EXCEPT !.locationType = lt] : lt \in StrListValues}
    \cup {[BaseLocation EXCEPT ![k] = v] : k \in LocationCopiedKeys, v \in {Absent, None, ""}}
    \cup {[BaseLocation EXCEPT ![k] = v] :
            k \in LocationNumKeys, v \in {AbsentNum, NoneNum, Num(0)}}

LocationsValues ==
    {AbsentList, NoneList, JList(<<>>), JList(<<EmptyLocation>>),
     JList(<<[EmptyLocation EXCEPT !.tag = "None"]>>)}
    \cup {JList(<<loc>>) : loc \in LocationValues}

Connection(i, t) == [tag |-> "dict", id |-> i, connectionType |-> t]
ConnectionDicts ==
    {Connection(i, t) : i \in {"X", "Y"}, t \in {"borders", "near", Absent}}
    \cup {Connection(Absent, Absent)}
ConnectionsValues ==
    {AbsentList, NoneList} \cup {JList(s) : s \in SeqsUpTo(ConnectionDicts, MaxConn)}

NameDict(attested) ==
    [tag |-> "dict", nameType |-> "geographic", transcriptionAccuracy |-> "accurate",
     associationCertainty |-> "certain", romanized |-> attested,
     attestations |-> JList(<<Attestation("Roman", "U1", "high", "V1"),
                              Attestation("Roman", "U1", "low", "V1")>>),
     id |-> attested, transcriptionCompleteness |-> "complete", language |-> "la",
     description |-> "a name", uri |-> "name-uri", attested |-> attested]
EmptyName ==
    [tag |-> "dict", nameType |-> Absent, transcriptionAccuracy |-> Absent,
     associationCertainty |-> Absent, romanized |-> Absent, attestations |-> AbsentList,
     id |-> Absent, transcriptionCompleteness |-> Absent, language |-> Absent,
     description |-> Absent, uri |-> Absent, attested |-> Absent]
\* two complete entries, one entry per missing field, an entry with a null
\* field, an empty entry and a null entry
NameDicts ==
    {NameDict("Roma"), NameDict("Urbs"), EmptyName, [EmptyName EXCEPT !.tag = "None"],
     [NameDict("Roma") EXCEPT !.attestations = AbsentList],
     [NameDict("Roma") EXCEPT !.language = None]}
    \cup {[NameDict("Roma") EXCEPT ![k] = Absent] : k \in NameStrKeys}
\* the lists of names: every list of the first four entries, and every entry
\* alone and after a complete one
NamesLists ==
    SeqsUpTo({NameDict("Roma"), NameDict("Urbs"), EmptyName,
              [NameDict("Roma") EXCEPT !.attested = Absent]}, MaxNames)
    \cup {<<d>> : d \in NameDicts} \cup {<<NameDict("Urbs"), d>> : d \in NameDicts}
NamesValues == {AbsentList, NoneList} \cup {JList(s) : s \in NamesLists}

Coordinates == {0, 10, 20}
BboxValues ==
    {AbsentList, NoneList} \cup {JList(s) : s \in SeqsUpTo(Coordinates, MaxBbox)}

BaseRecord ==
    [features |-> JList(<<BaseFeature>>), locations |-> JList(<<BaseLocation>>),
     connections |-> JList(<<>>), names |-> JList(<<NameDict("Roma")>>),
     id |-> "123", subject |-> JList(<<"dare">>), title |-> "Rome",
     provenance |-> "Barrington Atlas", details |-> "details", type |-> "FeatureCollection",
     uri |-> "https://pleiades.stoa.org/places/123", description |-> "An ancient place",
     placeTypes |-> JList(<<"settlement">>), bbox |-> JList(<<10, 20, 10, 20>>),
     reprPoint |-> JList(<<10, 20>>)]

RecordStrKeys == {"title", "provenance", "details", "type", "uri", "description"}

Variations ==
    {[BaseRecord EXCEPT !.features = v] : v \in FeaturesValues}
    \cup {[BaseRecord EXCEPT !.locations = v] : v \in LocationsValues}
    \cup {[BaseRecord EXCEPT !.connections = v] : v \in ConnectionsValues}
    \cup {[BaseRecord EXCEPT !.names = v] : v \in NamesValues}
    \cup {[BaseRecord EXCEPT !.bbox = v] : v \in BboxValues}
    \cup {[BaseRecord EXCEPT !.reprPoint = v] :
            v \in {AbsentList, NoneList, JList(<<>>), JList(<<0, 20>>)}}
    \cup {[BaseRecord EXCEPT !.subject = v] : v \in StrListValues}
    \cup {[BaseRecord EXCEPT !.placeTypes = v] : v \in StrListValues}
    \cup {[BaseRecord EXCEPT ![k] = v] : k \in RecordStrKeys, v \in {Absent, None, ""}}

\* every variation, with each kind of value of the id
RawRecords ==
    {[r EXCEPT !.id = i] : r \in Variations, i \in {"123", "", None, Absent}}

\* the records of a corpus
CorpusRecords ==
    {BaseRecord,
     [BaseRecord EXCEPT !.id = "456", !.title = "Athens", !.locations = NoneList],
     [BaseRecord EXCEPT !.names = JList(<<[NameDict("Roma") EXCEPT !.attested = Absent]>>)],
     [BaseRecord EXCEPT !.bbox = JList(<<10, 20, 10>>)],
     [BaseRecord EXCEPT !.connections = JList(<<Connection("X", "borders")>>)],
     [BaseRecord EXCEPT !.id = "789", !.locations =
         JList(<<[BaseLocation EXCEPT !.attestations =
                      JList(<<Attestation("Classical", "U2", "high", "V2")>>)]>>)]}

-----------------------------------------------------------------------------
(* The raw record as the constructors leave it. A constructor touches       *)
(* graph_dict only by subscripting it, one key per block, block after block *)
(* until one raises; everything it stores goes to attributes of self.       *)

\* the keys the blocks of the two constructors subscript, in source order
FullKeys ==
    <<"features", "locations", "connections", "names", "id", "subject", "title",
      "provenance", "details", "type", "uri", "description", "placeTypes", "bbox",
      "reprPoint">>
CuratedKeys ==
    <<"features", "locations", "connections", "names", "id", "subject", "title",
      "details", "uri", "description", "placeTypes", "bbox", "reprPoint">>
ClassKeys(cls) == IF cls = "PleiadesObject" THEN FullKeys ELSE CuratedKeys

\* the block of PleiadesObject.__init__ that subscripts key, run from state c
FullBlock(key, c, graph_dict) ==
    CASE key = "features" -> FullFeatures(c, graph_dict.features)
      [] key = "locations" -> FullLocations(c, graph_dict.locations)
      [] key = "connections" -> Connections(c, graph_dict.connections)
      [] key = "names" -> Names(c, graph_dict.names)
      [] key = "id" -> FullId(c, graph_dict)
      [] key = "subject" -> CopyList(c, "subjects", graph_dict.subject)
      [] key = "placeTypes" -> CopyList(c, "place_types", graph_dict.placeTypes)
      [] key = "bbox" -> CopyBbox(c, graph_dict.bbox)
      [] key = "reprPoint" -> CopyReprPoint(c, graph_dict.reprPoint)
      [] OTHER -> CopyStr(c, key, graph_dict[key])

\* the block of Pleiad.__init__ that subscripts key, run from state c
CuratedBlock(key, c, graph_dict) ==
    CASE key = "features" -> CuratedFeatures(c, graph_dict.features)
      [] key = "locations" -> CuratedLocations(c, graph_dict.locations)
      [] key = "connections" -> Connections(c, graph_dict.connections)
      [] key = "names" -> Names(c, graph_dict.names)
      [] key = "id" -> CuratedId(c, graph_dict)
      [] key = "subject" -> CopyList(c, "subjects", graph_dict.subject)
      [] key = "placeTypes" -> CopyList(c, "place_types", graph_dict.placeTypes)
      [] key = "bbox" -> CopyBbox(c, graph_dict.bbox)
      [] key = "reprPoint" -> CopyReprPoint(c, graph_dict.reprPoint)
      [] OTHER -> CopyStr(c, key, graph_dict[key])

\* the number of blocks a construction enters: all of them, or those up to the
\* first that raises (whether a block raises depends on the record alone)
BlocksEntered(cls, graph_dict) ==
    CHOOSE n \in
      {IF raising = {} THEN Len(ClassKeys(cls))
       ELSE CHOOSE k \in raising : \A j \in raising : k <= j : raising \in
      {{k \in 1..Len(ClassKeys(cls)) :
            IF cls = "PleiadesObject"
            THEN FullBlock(FullKeys[k], Ok(NewPleiadesObject), graph_dict).exc # NoExc
            ELSE CuratedBlock(CuratedKeys[k], Ok(NewPleiad), graph_dict).exc # NoExc}}} : TRUE

\* graph_dict after graph_dict.pop(key): the entry is gone
AfterPop(graph_dict, key) ==
    IF key \in RecordStrKeys \cup {"id"}
    THEN [graph_dict EXCEPT ![key] = Absent]
    ELSE [graph_dict EXCEPT ![key] = AbsentList]

\* graph_dict after the expression graph_dict[key]: a subscript reads
AfterSubscript(graph_dict, key) == graph_dict

\* graph_dict after the first n blocks
RECURSIVE AfterBlocks(_, _, _)
AfterBlocks(graph_dict, keys, n) ==
    IF n = 0 THEN graph_dict
    ELSE AfterSubscript(AfterBlocks(graph_dict, keys, n - 1), keys[n])

\* graph_dict after cls(graph_dict), returned or raised
AfterConstruction(cls, graph_dict) ==
    AfterBlocks(graph_dict, ClassKeys(cls), BlocksEntered(cls, graph_dict))

-----------------------------------------------------------------------------
(* class PleiadesGetter: the corpus loops *)

\* the class a corpus loop constructs
Class(f) == IF f = "get_pleiades_objects" THEN "PleiadesObject" ELSE "Pleiad"

\* PleiadesObject(graph_data[row]) in get_pleiades_objects, Pleiad(graph_data[row]) in get_pleiads
Construct(f, graph_dict) ==
    IF f = "get_pleiades_objects" THEN PleiadesObject(graph_dict) ELSE Pleiad(graph_dict)

\* LoopBody inserting at the front of the list
LoopBodyPrepend(f, graph_data, r, list) ==
    LET o == Construct(f, graph_data[r + 1]) IN
    IF o.exc # NoExc
    THEN [pc |-> "raised", row |-> r, pleiads |-> <<>>, ret |-> Raise(o.exc)]
    ELSE [pc |-> "loop", row |-> r + 1, pleiads |-> <<o.val>> \o list, ret |-> Ok(<<>>)]

\* LoopBody with the construction in try/except: a failing record is skipped
LoopBodySkip(f, graph_data, r, list) ==
    LET o == Construct(f, graph_data[r + 1]) IN
    IF o.exc # NoExc
    THEN [pc |-> "loop", row |-> r + 1, pleiads |-> list, ret |-> Ok(<<>>)]
    ELSE [pc |-> "loop", row |-> r + 1, pleiads |-> Append(list, o.val), ret |-> Ok(<<>>)]

\* b with the entries of a before it: the keys of a keep the values they have in a
Merged(a, b) ==
    [k \in DOMAIN a \cup DOMAIN b |-> IF k \in DOMAIN a THEN a[k] ELSE b[k]]

\* LoopBody with the four tables as class attributes of PleiadesObject: an
\* object starts from the tables the object before it left
LoopBodySharedTables(f, graph_data, r, list) ==
    LET o == Construct(f, graph_data[r + 1])
        shared == IF f = "get_pleiades_objects" /\ list # <<>>
                  THEN [o.val EXCEPT
                          !.time_periods = Merged(list[Len(list)].time_periods, @),
                          !.confidence_metrics = Merged(list[Len(list)].confidence_metrics, @),
                          !.association_certainties =
                              Merged(list[Len(list)].association_certainties, @),
                          !.location_types = Merged(list[Len(list)].location_types, @)]
                  ELSE o.val
    IN
    IF o.exc # NoExc
    THEN [pc |-> "raised", row |-> r, pleiads |-> <<>>, ret |-> Raise(o.exc)]
    ELSE [pc |-> "loop", row |-> r + 1, pleiads |-> Append(list, shared), ret |-> Ok(<<>>)]

\* one pass of `for row in range(len(graph_data)): pleiads.append(...)`;
\* an exception leaves the function, and its local list is lost with the frame
LoopBody(f, graph_data, r, list) ==
    LET o == Construct(f, graph_data[r + 1]) IN
    IF o.exc # NoExc
    THEN [pc |-> "raised", row |-> r, pleiads |-> <<>>, ret |-> Raise(o.exc)]
    ELSE [pc |-> "loop", row |-> r + 1, pleiads |-> Append(list, o.val), ret |-> Ok(<<>>)]

-----------------------------------------------------------------------------
(* The state machine: one call of a constructor or of a corpus loop *)

Init ==
    /\ pc = "idle"
    /\ fn = ""
    /\ arg = <<>>
    /\ heap = <<>>
    /\ row = 0
    /\ pleiads = <<>>
    /\ ret = Ok(<<>>)

\* the position after a call that yielded r
After(r) == IF r.exc = NoExc THEN "returned" ELSE "raised"

CallPleiadesObject ==
    \E graph_dict \in RawRecords :
        /\ pc = "idle"
        /\ fn' = "PleiadesObject"
        /\ arg' = graph_dict
        /\ heap' = AfterConstruction("PleiadesObject", graph_dict)
        /\ ret' = PleiadesObject(graph_dict)
        /\ pc' = After(ret')
        /\ UNCHANGED <<row, pleiads>>

CallPleiad ==
    \E graph_dict \in RawRecords :
        /\ pc = "idle"
        /\ fn' = "Pleiad"
        /\ arg' = graph_dict
        /\ heap' = AfterConstruction("Pleiad", graph_dict)
        /\ ret' = Pleiad(graph_dict)
        /\ pc' = After(ret')
        /\ UNCHANGED <<row, pleiads>>

CallBboxContainer ==
    \E coordinates \in SeqsUpTo(Coordinates, MaxBbox) :
        /\ pc = "idle"
        /\ fn' = "BboxContainer"
        /\ arg' = coordinates
        /\ heap' = coordinates
        /\ ret' = BboxContainer(coordinates)
        /\ pc' = After(ret')
        /\ UNCHANGED <<row, pleiads>>

CallAttestationsContainer ==
    \E attestations_list \in SeqsUpTo(DirectAttestations, MaxLen) :
        /\ pc = "idle"
        /\ fn' = "AttestationsContainer"
        /\ arg' = JList(attestations_list)
        /\ heap' = JList(attestations_list)
        /\ ret' = AttestationsContainer(JList(attestations_list))
        /\ pc' = After(ret')
        /\ UNCHANGED <<row, pleiads>>

CallNamesContainer ==
    \E names_list \in NamesLists :
        /\ pc = "idle"
        /\ fn' = "NamesContainer"
        /\ arg' = JList(names_list)
        /\ heap' = JList(names_list)
        /\ ret' = NamesContainer(JList(names_list))
        /\ pc' = After(ret')
        /\ UNCHANGED <<row, pleiads>>

CallCorpus ==
    \E f \in {"get_pleiades_objects", "get_pleiads"},
       graph_data \in SeqsUpTo(CorpusRecords, MaxRecords) :
        /\ pc = "idle"
        /\ fn' = f
        /\ arg' = graph_data
        /\ heap' = graph_data
        /\ row' = 0
        /\ pleiads' = <<>>
        /\ pc' = "loop"
        /\ UNCHANGED ret

Loop ==
    /\ pc = "loop"
    /\ row < Len(arg)
    /\ LET n == LoopBody(fn, heap, row, pleiads) IN
        /\ pc' = n.pc
        /\ row' = n.row
        /\ pleiads' = n.pleiads
        /\ ret' = n.ret
    /\ heap' = [heap EXCEPT ![row + 1] = AfterConstruction(Class(fn), heap[row + 1])]
    /\ UNCHANGED <<fn, arg>>

Return ==
    /\ pc = "loop"
    /\ row = Len(arg)
    /\ ret' = Ok(pleiads)
    /\ pc' = "returned"
    /\ UNCHANGED <<fn, arg, heap, row, pleiads>>

Next ==
    \/ CallPleiadesObject
    \/ CallPleiad
    \/ CallBboxContainer
    \/ CallAttestationsContainer
    \/ CallNamesContainer
    \/ CallCorpus
    \/ Loop
    \/ Return

Spec == Init /\ [][Next]_vars

-----------------------------------------------------------------------------
(* Vocabulary of the properties *)

Mapped == fn \in {"PleiadesObject", "Pleiad"} /\ pc \in {"returned", "raised"}

\* the index of the first / last entry of items whose field key is l
FirstIndex(items, key, l) ==
    CHOOSE i \in 1..Len(items) :
        items[i][key] = l /\ \A j \in 1..(i - 1) : items[j][key] # l
LastIndex(items, key, l) ==
    CHOOSE i \in 1..Len(items) :
        items[i][key] = l /\ \A j \in (i + 1)..Len(items) : items[j][key] # l

Labels(items, key) == {items[i][key] : i \in 1..Len(items)}
FirstWins(items, key, value) ==
    [l \in Labels(items, key) |-> items[FirstIndex(items, key, l)][value]]
LastWins(items, key, value) ==
    [l \in Labels(items, key) |-> items[LastIndex(items, key, l)][value]]

\* the record has a first location / the attestations of that location
HasLocation(r) == TestDictList(r.locations, LocationStrKeys, LocationTagKeys) = "true"
LocationAttestations(r) ==
    IF HasLocation(r) /\ TruthyList(r.locations.items[1].attestations)
    THEN r.locations.items[1].attestations.items ELSE <<>>

-----------------------------------------------------------------------------
\* C1: a record whose connections list is non-empty (every item with its id and
\* its connectionType) is mapped by PleiadesObject and by Pleiad to an object
\* whose connections map each id to the type of its last occurrence.
C1_ConnectionsLastWins ==
    (/\ Mapped
     /\ arg.connections.tag = "list" /\ arg.connections.items # <<>>
     /\ \A i \in 1..Len(arg.connections.items) :
            /\ arg.connections.items[i].id # Absent
            /\ arg.connections.items[i].connectionType # Absent
     /\ arg = [BaseRecord EXCEPT !.connections = arg.connections])
    => /\ pc = "returned"
       /\ ret.val.connections = <<LastWins(arg.connections.items, "id", "connectionType")>>

\* C2: a record without a "locations" entry is mapped by PleiadesObject and by
\* Pleiad without an exception, and no location-derived attribute is set.
C2_NoLocationsNoRaise ==
    (Mapped /\ arg = [BaseRecord EXCEPT !.locations = AbsentList])
    => /\ pc = "returned"
       /\ fn = "Pleiad" =>
             /\ ret.val.attestations = <<>> /\ ret.val.start_date = <<>>
             /\ ret.val.end_date = <<>> /\ ret.val.archaeological_remains = <<>>
       /\ fn = "PleiadesObject" =>
             /\ ret.val.locations_attestations = <<>> /\ ret.val.locations_start = <<>>
             /\ ret.val.locations_end = <<>>
             /\ ret.val.locations_archaeologicalRemains = <<>>
             /\ ret.val.locations_associationCertainty = <<>>
             /\ ret.val.locations_featureType = <<>>
             /\ ret.val.locations_accuracy_value = <<>>
             /\ ret.val.locations_uri = <<>> /\ ret.val.locations_type = <<>>
             /\ ret.val.time_periods = EmptyDict /\ ret.val.confidence_metrics = EmptyDict
             /\ ret.val.association_certainties = EmptyDict
             /\ ret.val.location_types = EmptyDict

\* C3: in every PleiadesObject each of the four tables maps a label to the URI
\* of the label's first occurrence: time periods and confidences over the
\* attestation list of the first location, association certainty and location
\* type from the single entry of that location.
C3_TablesFirstWins ==
    (fn = "PleiadesObject" /\ pc = "returned") =>
        LET items == LocationAttestations(arg)
            loc == arg.locations.items[1]
        IN /\ ret.val.time_periods = FirstWins(items, "timePeriod", "timePeriodURI")
           /\ ret.val.confidence_metrics = FirstWins(items, "confidence", "confidenceURI")
           /\ ret.val.association_certainties =
                 IF HasLocation(arg) /\ Truthy(loc.associationCertainty)
                 THEN Put(EmptyDict, loc.associationCertainty, loc.associationCertaintyURI)
                 ELSE EmptyDict
           /\ ret.val.location_types =
                 IF /\ HasLocation(arg) /\ TruthyList(loc.featureTypeURI)
                    /\ Truthy(loc.featureTypeURI.items[1])
                 THEN Put(EmptyDict, loc.featureType.items[1], loc.featureTypeURI.items[1])
                 ELSE EmptyDict

\* a PleiadesObject whose attestations repeat a time period with another URI and
\* another confidence: the table keeps the first URI, the AttestationsContainer
\* the last confidence
C3_Witness ==
    /\ fn = "PleiadesObject" /\ pc = "returned"
    /\ LET items == LocationAttestations(arg) IN
        /\ Len(items) = 2
        /\ items[1].timePeriod = items[2].timePeriod
        /\ items[1].timePeriodURI # items[2].timePeriodURI
        /\ items[1].confidence # items[2].confidence
        /\ ret.val.time_periods[items[1].timePeriod] = items[1].timePeriodURI
        /\ ret.val.locations_attestations[1].attestations[items[1].timePeriod]
               = items[2].confidence

\* C4: AttestationsContainer over a list maps exactly the time periods of the
\* list, each to the confidence of its last occurrence; the empty list gives
\* the empty table.
C4_AttestationsLastWins ==
    (fn = "AttestationsContainer" /\ pc = "returned") =>
        /\ DOMAIN ret.val.attestations = Labels(arg.items, "timePeriod")
        /\ ret.val.attestations = LastWins(arg.items, "timePeriod", "confidence")
        /\ arg.items = <<>> => ret.val.attestations = EmptyDict

C4_Witness ==
    /\ fn = "AttestationsContainer" /\ pc = "returned"
    /\ arg.items = <<Attestation("Classical", "U1", "low", "V1"),
                     Attestation("Classical", "U1", "high", "V1")>>
    /\ ret.val.attestations = Put(EmptyDict, "Classical", "high")

\* C5: every field is optional: a record that differs from the base record
\* only by optional fields (top-level keys, keys of features[0] and of
\* locations[0]) being absent, null or empty is mapped without an exception,
\* and the flat string fields that are present and non-empty are set.
C5_EveryFieldOptional ==
    (/\ Mapped
     /\ arg.connections = BaseRecord.connections
     /\ arg.names = BaseRecord.names
     /\ arg.bbox = BaseRecord.bbox)
    => /\ pc = "returned"
       /\ \A k \in {"id", "title", "details", "uri", "description"} :
              ret.val[k] = IF arg[k] # Absent /\ Truthy(arg[k]) THEN <<arg[k]>> ELSE <<>>

-----------------------------------------------------------------------------
Corpus == fn \in {"get_pleiades_objects", "get_pleiads"}

\* the mapping of the i-th record of the corpus
Mapping(i) == Construct(fn, arg[i])
\* the first record of the corpus whose mapping raises, 0 when none does
FirstFailure ==
    IF \E i \in 1..Len(arg) : Mapping(i).exc # NoExc
    THEN CHOOSE i \in 1..Len(arg) :
             Mapping(i).exc # NoExc /\ \A j \in 1..(i - 1) : Mapping(j).exc = NoExc
    ELSE 0

\* C6: a corpus of N records that all map is returned as N objects, the i-th
\* the mapping of the i-th record; on the way the list holds the mappings of
\* the records passed, in order.
C6_CorpusOrder ==
    Corpus =>
        /\ pc = "returned" =>
              /\ Len(ret.val) = Len(arg)
              /\ \A i \in 1..Len(arg) :
                     Mapping(i).exc = NoExc /\ ret.val[i] = Mapping(i).val
        /\ FirstFailure = 0 =>
              /\ pc # "raised"
              /\ pc = "loop" =>
                    /\ Len(pleiads) = row
                    /\ \A i \in 1..row : pleiads[i] = Mapping(i).val

C6_Witness ==
    /\ fn = "get_pleiads" /\ pc = "returned"
    /\ Len(arg) = 2 /\ arg[1].id = "456" /\ arg[2].id = "123"
    /\ ret.val[1].id = <<"456">> /\ ret.val[2].id = <<"123">>

\* C7: a corpus with a record whose mapping raises is never returned: the call
\* ends at the first such record with that record's exception, and no list of
\* the records mapped before it comes back.
C7_CorpusFailFast ==
    Corpus =>
        /\ pc = "raised" => FirstFailure # 0
        /\ FirstFailure # 0 =>
              /\ pc # "returned"
              /\ row < FirstFailure
              /\ pc = "raised" =>
                    /\ row = FirstFailure - 1
                    /\ ret.exc = Mapping(FirstFailure).exc
                    /\ ret.val = <<>>
                    /\ pleiads = <<>>

\* a corpus that fails at its second record, after the first one was mapped
C7_Witness ==
    /\ Corpus /\ pc = "raised" /\ row = 1
    /\ Mapping(1).exc = NoExc /\ ret.exc = KeyError

-----------------------------------------------------------------------------
\* the entry holds the eleven fields of a name
CompleteName(e) ==
    /\ e.tag = "dict"
    /\ \A k \in NameStrKeys : e[k] # Absent
    /\ e.attestations.tag = "list"

\* C8: NamesContainer builds one Name per entry, in order, with the values of
\* the entry; an entry without one of the eleven fields makes it raise, and
\* the exception leaves PleiadesObject and Pleiad, which then yield no object.
C8_NamesRequired ==
    /\ (fn = "NamesContainer" /\ pc \in {"returned", "raised"}) =>
          IF \A i \in 1..Len(arg.items) : CompleteName(arg.items[i])
          THEN /\ pc = "returned"
               /\ Len(ret.val.names) = Len(arg.items)
               /\ \A i \in 1..Len(arg.items) :
                      /\ ret.val.names[i].name_attested = arg.items[i].attested
                      /\ ret.val.names[i].name_id = arg.items[i].id
                      /\ ret.val.names[i].language = arg.items[i].language
          ELSE pc = "raised" /\ ret.exc \in {KeyError, TypeError} /\ ret.val = <<>>
    /\ (Mapped /\ TestDictList(arg.names, NameStrKeys, NameTagKeys) = "true") =>
          /\ (\E i \in 1..Len(arg.names.items) : ~CompleteName(arg.names.items[i]))
                 => pc = "raised" /\ ret.val = <<>>
          /\ pc = "returned" => ret.val.names = <<NamesContainer(arg.names).val>>

\* a record whose second name has no "attested": the mapping raises KeyError
C8_Witness ==
    /\ Mapped /\ pc = "raised" /\ ret.exc = KeyError
    /\ arg = [BaseRecord EXCEPT !.names =
                 JList(<<NameDict("Urbs"), [NameDict("Roma") EXCEPT !.attested = Absent]>>)]

\* C9: BboxContainer over four numbers sets min_longitude, min_latitude,
\* max_longitude, max_latitude to them in that order; over fewer than four it
\* raises and yields no box.
C9_BboxOrder ==
    (fn = "BboxContainer" /\ pc \in {"returned", "raised"}) =>
        /\ Len(arg) = 4 =>
              /\ pc = "returned"
              /\ ret.val = [min_longitude |-> arg[1], min_latitude |-> arg[2],
                            max_longitude |-> arg[3], max_latitude |-> arg[4]]
        /\ Len(arg) < 4 => pc = "raised" /\ ret.exc = IndexError /\ ret.val = <<>>

C9_Witness ==
    /\ fn = "BboxContainer" /\ pc = "returned"
    /\ arg = <<10, 20, 0, 10>>
    /\ ret.val.min_longitude = 10 /\ ret.val.min_latitude = 20
    /\ ret.val.max_longitude = 0 /\ ret.val.max_latitude = 10

\* C10: when PleiadesObject and Pleiad both map a record, the two objects have
\* the same id, set in one exactly when it is set in the other.
C10_SameId ==
    (Mapped /\ pc = "returned") =>
        LET other == IF fn = "Pleiad" THEN PleiadesObject(arg) ELSE Pleiad(arg)
        IN other.exc = NoExc => other.val.id = ret.val.id

C10_Witness ==
    /\ fn = "Pleiad" /\ pc = "returned"
    /\ PleiadesObject(arg).exc = NoExc
    /\ ret.val.id = <<"123">> /\ PleiadesObject(arg).val.id = <<"123">>

OwnVocabulary(r) ==
    IF ~HasLocation(r) THEN {}
    ELSE LET loc == r.locations.items[1]
             items == LocationAttestations(r)
         IN {loc.associationCertainty, loc.associationCertaintyURI}
            \cup (IF loc.featureType.tag = "list"
                  THEN {loc.featureType.items[i] : i \in 1..Len(loc.featureType.items)}
                  ELSE {})
            \cup (IF loc.featureTypeURI.tag = "list"
                  THEN {loc.featureTypeURI.items[i] : i \in 1..Len(loc.featureTypeURI.items)}
                  ELSE {})
            \cup Labels(items, "timePeriod") \cup Labels(items, "timePeriodURI")
            \cup Labels(items, "confidence") \cup Labels(items, "confidenceURI")

\* the labels and the URIs of the four tables of a PleiadesObject
TableStrings(o) ==
    UNION {DOMAIN t \cup {t[k] : k \in DOMAIN t} :
              t \in {o.time_periods, o.confidence_metrics, o.association_certainties,
                     o.location_types}}

\* C12: in a corpus loop every object built so far is the one its record maps
\* to when mapped alone, whatever records were mapped before it; the four
\* tables of a PleiadesObject hold only labels and URIs of the first location of
\* its own record.
C12_NoSharedState ==
    (Corpus /\ pc \in {"loop", "returned"}) =>
        \A i \in 1..Len(pleiads) :
            /\ pleiads[i] = Construct(fn, arg[i]).val
            /\ fn = "get_pleiades_objects" =>
                   TableStrings(pleiads[i]) \subseteq OwnVocabulary(arg[i])

\* two records that give the same time period different URIs, mapped one after
\* the other: each object has the URI of its own record
C12_Witness ==
    /\ fn = "get_pleiades_objects" /\ pc = "returned"
    /\ Len(arg) = 2 /\ arg[1] = BaseRecord /\ arg[2].id = "789"
    /\ ret.val[1].time_periods["Classical"] = "U1"
    /\ ret.val[2].time_periods["Classical"] = "U2"
    /\ DOMAIN ret.val[2].confidence_metrics = {"high"}

\* C13: a record whose bbox is a list of exactly four numbers, every other
\* entry as in the base record, is mapped by PleiadesObject and by Pleiad to an
\* object whose bbox holds those four numbers in order, whatever their values.
C13_BboxOfFour ==
    (/\ Mapped
     /\ arg.bbox.tag = "list" /\ Len(arg.bbox.items) = 4
     /\ arg = [BaseRecord EXCEPT !.bbox = arg.bbox])
    => /\ pc = "returned"
       /\ ret.val.bbox = <<[min_longitude |-> arg.bbox.items[1],
                            min_latitude |-> arg.bbox.items[2],
                            max_longitude |-> arg.bbox.items[3],
                            max_latitude |-> arg.bbox.items[4]]>>

====
